---- MODULE Spec2Model ----
(***************************************************************************)
(* A model of the beauty_lakehouse dataset generator                       *)
(* (src/src/generate_data.py) and of its validator                         *)
(* (src/scripts/validate_dataset.py).                                      *)
(*                                                                         *)
(* Money is in integer cents, dates are day numbers.  A CSV file is a      *)
(* header (a sequence of column names) and lines (sequences of cells, in   *)
(* header order); a DataFrame is a set of column names and a sequence of   *)
(* rows, each a function from column name to cell.                         *)
(*                                                                         *)
(* numpy's generator, seeded once with SEED, is the sequence `stream` of   *)
(* the values it hands out: a first run reveals the stream draw by draw,   *)
(* a run re-started with the same seed reads the same stream again.        *)
(***************************************************************************)
EXTENDS Integers, Sequences, FiniteSets

\* ------------------------------------------------------------------ bounds
MaxCustomers == 2
MaxProducts == 2
MaxOrders == 2
\* The signup window, 3 * 365 days in the source, in days of the model.
WindowDays == 1
\* The day of the first run, and how many days later a second run may start.
Today == 10
MaxClockAdvance == 1

\* ------------------------------------------------------- program constants
SEED == 42
MIN_ITEMS_PER_ORDER == 1
DEFAULT_MAX_ITEMS_PER_ORDER == 6

SWEDISH_CITIES == <<"Stockholm">>
PAYMENT_TYPES == <<"card", "invoice", "paypal", "swish">>
ORDER_STATUSES == <<"completed", "cancelled", "returned">>
adjectives == <<"Hydra">>
sizes == <<"30ml">>

\* Two entries of the thirty of the authoritative mapping.
PRODUCT_TYPE_TO_CATEGORY ==
    [t \in {"Dry Shampoo", "Hand Cream"} |->
        IF t = "Dry Shampoo" THEN "Shampoo" ELSE "Hand Care"]

CatalogKeys == <<"Dry Shampoo", "Hand Cream">>

\* The weights of the item-count distribution, in percent.
ItemCountWeights == <<50, 25, 15, 7, 2, 1>>
\* np.random.choice([1, 1, 1, 2, 2, 3], ...): the values it can return.
QuantityChoices == {1, 2, 3}
\* np.random.choice([0.0, 0.0, 0.05, 0.1], ...), in percent.
DiscountChoices == {0, 5, 10}

customers_columns ==
    <<"customer_id", "first_name", "last_name", "email", "signup_date", "city", "age">>
products_columns ==
    <<"product_id", "product_name", "product_type", "category", "price", "cost",
      "available_stock">>
orders_columns ==
    <<"order_id", "customer_id", "order_date", "total_amount", "payment_type", "status">>
order_items_columns ==
    <<"order_item_id", "order_id", "product_id", "quantity", "unit_price", "line_total">>

\* ------------------------------------------- the values the samplers return
\* fake.name(): a sequence of words.
FakeNames == {<<"Anna", "Maria", "Berg">>}
\* np.random.normal(35, 10), before clipping.
NormalAgeSample == {5}
\* np.random.lognormal(2.8, 0.8) rounded to cents.
PriceSample == {1649}
\* np.random.uniform(0.40, 0.70), in percent.
CostFactorSample == {55}
\* np.random.poisson(120).
PoissonSample == {120}
\* The payment types and statuses sampled (indices into the lists).
PaymentSample == {1}
StatusSample == {1}
\* The values MAX_ITEMS_PER_ORDER is configured with.
MaxItemsChoices == {DEFAULT_MAX_ITEMS_PER_ORDER, DEFAULT_MAX_ITEMS_PER_ORDER + 1}

VARIABLES
    N_CUSTOMERS, N_PRODUCTS, N_ORDERS, MAX_ITEMS_PER_ORDER, PRODUCT_TYPES,
    END_DATE,        \* datetime.today(), as a day number
    pc,              \* the generator's position
    i,               \* the loop index of the customer and product loops
    customers, products, prices,
    signup_map, price_map,
    order_id, order_item_id,
    errors,          \* the order ids reported on stderr, in order
    files,           \* the files of data/raw: <<>> (absent) or <<file>>
    stream, pos,     \* the seeded stream and the number of values drawn
    prev,            \* the four tables of the previous run: <<>> or <<tables>>
    vpc,             \* the validator's position
    frames,          \* the validator's DataFrames
    report,          \* what the validator printed: violations per check
    scenario         \* how the dataset under validation was made

config == <<N_CUSTOMERS, N_PRODUCTS, N_ORDERS, MAX_ITEMS_PER_ORDER, PRODUCT_TYPES>>
genvars == <<pc, i, customers, products, prices, signup_map, price_map,
             order_id, order_item_id, errors>>
valvars == <<vpc, frames, report, scenario>>
vars == <<config, END_DATE, genvars, files, stream, pos, prev, valvars>>

\* ----------------------------------------------------------------- helpers
Range(s) == {s[k] : k \in DOMAIN s}

RECURSIVE Sum(_)
Sum(s) == IF s = <<>> THEN 0 ELSE s[1] + Sum(Tail(s))

Min(a, b) == IF a < b THEN a ELSE b
Max(a, b) == IF a > b THEN a ELSE b

\* round(num / den) to the nearest integer, for num >= 0.  The samples hold
\* no exact tie, where a binary float may fall either way.
Round(num, den) == (2 * num + den) \div (2 * den)

START_DATE == END_DATE - WindowDays

\* --------------------------------------------------------- the seeded stream
\* The draws d continue the stream from pos: a re-run reads what was recorded.
Follows(before, d) ==
    \A k \in 1..Len(d) :
        pos + Len(before) + k <= Len(stream) => stream[pos + Len(before) + k] = d[k]

Consistent(d) == Follows(<<>>, d)

Record(d) ==
    IF pos + Len(d) <= Len(stream) THEN stream ELSE SubSeq(stream, 1, pos) \o d

\* ------------------------------------------------------------------- files
FileNames == {"customers.csv", "products.csv", "orders.csv", "order_items.csv",
              "metadata.json"}
TableNames == {"customers.csv", "products.csv", "orders.csv", "order_items.csv"}

NoFiles == [f \in FileNames |-> <<>>]

\* DataFrame.to_csv(path, index=False) of pd.DataFrame(rows): the header is
\* the keys of the dicts, and empty for an empty list.
to_csv(rows, columns) ==
    IF rows = <<>>
    THEN [header |-> <<>>, lines |-> <<>>]
    ELSE [header |-> columns,
          lines |-> [k \in 1..Len(rows) |-> [c \in 1..Len(columns) |-> rows[k][columns[c]]]]]

Write(fs, name, file) == [fs EXCEPT ![name] = <<file>>]

AppendLine(fs, name, line) ==
    [fs EXCEPT ![name] = <<[header |-> fs[name][1].header,
                            lines |-> Append(fs[name][1].lines, line)]>>]

FourTables(fs) == [f \in TableNames |-> fs[f]]

\* ---------------------------------------------------------------- customers
random_date_between(start, end, rand_days) == start + rand_days

ClipAge(x) == Max(18, Min(90, x))

Email(n) == <<"user1@example.com", "user2@example.com", "user3@example.com",
              "user4@example.com">>[n]

GenCustomer ==
    /\ pc = "customers"
    /\ i <= N_CUSTOMERS
    /\ \E name \in FakeNames, rand_days \in 0..(END_DATE - START_DATE),
          normal \in NormalAgeSample, city \in 1..Len(SWEDISH_CITIES) :
        LET d == <<rand_days, normal, city>>
            row == [customer_id |-> i,
                    first_name |-> name[1],
                    last_name |-> name[Len(name)],
                    email |-> Email(i),
                    signup_date |-> random_date_between(START_DATE, END_DATE, rand_days),
                    city |-> SWEDISH_CITIES[city],
                    age |-> ClipAge(normal)]
        IN  /\ Consistent(d)
            /\ stream' = Record(d)
            /\ pos' = pos + Len(d)
            /\ customers' = Append(customers, row)
    /\ i' = i + 1
    /\ UNCHANGED <<config, END_DATE, pc, products, prices, signup_map, price_map,
                   order_id, order_item_id, errors, files, prev, valvars>>

\* signup_map: customer_id -> the date parsed back from signup_date.  The
\* date was written by isoformat(), so the parse never takes the except branch.
SignupMap(rows) ==
    [c \in {rows[k].customer_id : k \in 1..Len(rows)} |->
        rows[CHOOSE k \in 1..Len(rows) : rows[k].customer_id = c].signup_date]

\* Lines 154-164 and 192: customers.csv is written, signup_map built, and
\* the list prices drawn.
SaveCustomers ==
    /\ pc = "customers"
    /\ i > N_CUSTOMERS
    /\ files' = Write(files, "customers.csv", to_csv(customers, customers_columns))
    /\ signup_map' = SignupMap(customers)
    /\ \E p \in [1..N_PRODUCTS -> PriceSample] :
        /\ Consistent(p)
        /\ stream' = Record(p)
        /\ pos' = pos + Len(p)
        /\ prices' = p
    /\ pc' = "products"
    /\ i' = 1
    /\ UNCHANGED <<config, END_DATE, customers, products, price_map,
                   order_id, order_item_id, errors, prev, valvars>>

\* ----------------------------------------------------------------- products
ProductName(adjective, ptype, size) ==
    IF ptype = "Dry Shampoo" THEN "Hydra Dry Shampoo 30ml" ELSE "Hydra Hand Cream 30ml"

\* Mutant: the factor applied as a markup on the price.
CostAsMarkup(price, factor) == Round(price * (100 + factor), 100)

\* cost = round(price * uniform(0.40, 0.70), 2)
Cost(price, factor) == Round(price * factor, 100)

\* One pass of the product loop; np.random.choice of an empty catalog raises
\* ValueError, which nothing catches.
GenProduct ==
    /\ pc = "products"
    /\ i <= N_PRODUCTS
    /\ IF PRODUCT_TYPES = <<>>
       THEN /\ pc' = "aborted"
            /\ UNCHANGED <<i, products, stream, pos>>
       ELSE /\ \E t \in 1..Len(PRODUCT_TYPES), factor \in CostFactorSample,
                  stock \in PoissonSample, a \in 1..Len(adjectives), z \in 1..Len(sizes) :
                LET d == <<t, factor, stock, a, z>>
                    ptype == PRODUCT_TYPES[t]
                    price == prices[i]
                    row == [product_id |-> i,
                            product_name |-> ProductName(adjectives[a], ptype, sizes[z]),
                            product_type |-> ptype,
                            category |-> PRODUCT_TYPE_TO_CATEGORY[ptype],
                            price |-> price,
                            cost |-> Cost(price, factor),
                            available_stock |-> stock]
                IN  /\ Consistent(d)
                    /\ stream' = Record(d)
                    /\ pos' = pos + Len(d)
                    /\ products' = Append(products, row)
            /\ i' = i + 1
            /\ pc' = pc
    /\ UNCHANGED <<config, END_DATE, customers, prices, signup_map, price_map,
                   order_id, order_item_id, errors, files, prev, valvars>>

\* Mutant: the last product is left out of the map.
PriceMapWithoutLast(rows) ==
    [p \in {rows[k].product_id : k \in 1..(Len(rows) - 1)} |->
        rows[CHOOSE k \in 1..Len(rows) : rows[k].product_id = p].price]

\* price_map = products_df.set_index("product_id")["price"].to_dict()
PriceMap(rows) ==
    [p \in {rows[k].product_id : k \in 1..Len(rows)} |->
        rows[CHOOSE k \in 1..Len(rows) : rows[k].product_id = p].price]

EmptyFile(columns) == [header |-> columns, lines |-> <<>>]

\* Lines 214-261: products.csv is written; set_index raises KeyError on a
\* DataFrame with no columns (no product), which nothing catches; then
\* orders.csv and order_items.csv are opened and their headers written.
SaveProducts ==
    /\ pc = "products"
    /\ i > N_PRODUCTS
    /\ LET saved == Write(files, "products.csv", to_csv(products, products_columns))
       IN IF products = <<>>
          THEN /\ files' = saved
               /\ pc' = "aborted"
               /\ UNCHANGED <<price_map, order_id, order_item_id>>
          ELSE /\ files' = Write(Write(saved, "orders.csv", EmptyFile(orders_columns)),
                                 "order_items.csv", EmptyFile(order_items_columns))
               /\ price_map' = PriceMap(products)
               /\ order_id' = 1
               /\ order_item_id' = 0
               /\ pc' = "orders"
    /\ UNCHANGED <<config, END_DATE, i, customers, products, prices, signup_map,
                   errors, stream, pos, prev, valvars>>

\* ------------------------------------------------- orders and order_items
item_choices == [k \in 1..Max(0, MAX_ITEMS_PER_ORDER - MIN_ITEMS_PER_ORDER + 1) |->
                    MIN_ITEMS_PER_ORDER + k - 1]
\* base_probs = np.array([...])[: len(item_choices)], renormalised
base_probs == SubSeq(ItemCountWeights, 1, Min(Len(ItemCountWeights), Len(item_choices)))

\* The samples of k distinct product ids np.random.choice(..., size=k,
\* replace=False, p=zipf_weights) can return: every zipf weight is positive.
DistinctProducts(k) ==
    {s \in [1..k -> 1..N_PRODUCTS] : \A a, b \in 1..k : a # b => s[a] # s[b]}

\* Mutant: the order date sampled from the start of the window.
OrderDateFromWindowStart(signup_dt, rand_days) == START_DATE + rand_days

\* The order date, rand_days after the signup date (0 when the signup date is
\* not before END_DATE).
OrderDate(signup_dt, rand_days) == signup_dt + rand_days

unit_price_after(unit_price, discount) == Round(unit_price * (100 - discount), 100)

\* Mutant: the quantity left out of the line total.
LineTotalIgnoringQuantity(quantity, price_after) == price_after

\* line_total = round(quantity * unit_price_after, 2): exact in cents
LineTotal(quantity, price_after) == quantity * price_after

\* total_amount = round(sum(line_totals), 2): exact in cents
TotalAmount(line_totals) == Sum(line_totals)

\* The line written to order_items.csv for one product of an order.
ItemLine(item_id, oid, pid, quantity, discount) ==
    LET after == unit_price_after(price_map[pid], discount)
    IN  <<item_id, oid, pid, quantity, after, LineTotal(quantity, after)>>

\* The draws of the item loop, in the order they are made: quantity, discount.
ItemDraws(qs, dcs) ==
    [j \in 1..(2 * Len(qs)) |-> IF j % 2 = 1 THEN qs[(j + 1) \div 2] ELSE dcs[j \div 2]]

\* An attempt that raised: the draws it made, the item lines it had written
\* and the item ids it had used by then.
Raised(d, lines, ids) ==
    [raised |-> TRUE, draws |-> d, item_lines |-> lines, ids |-> ids, order_line |-> <<>>]

\* The item loop and the order line (lines 286-312).  An item whose product
\* is not in price_map raises KeyError after its quantity was drawn; the
\* lines of the items before it are in order_items.csv by then.
ItemsOutcome(oid, customer_id, order_date, payment, status, pids, qs, dcs, d) ==
    LET missing == {k \in 1..Len(pids) : pids[k] \notin DOMAIN price_map}
        upto == IF missing = {} THEN Len(pids)
                ELSE (CHOOSE k \in missing : \A m \in missing : k <= m) - 1
        lines == [k \in 1..upto |-> ItemLine(order_item_id + k, oid, pids[k], qs[k], dcs[k])]
    IN  IF missing # {}
        THEN Raised(d \o SubSeq(ItemDraws(qs, dcs), 1, 2 * upto + 1), lines, upto + 1)
        ELSE [raised |-> FALSE,
              draws |-> d \o ItemDraws(qs, dcs),
              item_lines |-> lines,
              ids |-> Len(pids),
              order_line |-> <<oid, customer_id, order_date,
                               TotalAmount([k \in 1..upto |-> lines[k][6]]),
                               PAYMENT_TYPES[payment], ORDER_STATUSES[status]>>]

\* What np.random hands the try block, call by call.  A call that raises,
\* or that is not reached, draws nothing (<<>>).

\* np.random.randint(1, N_CUSTOMERS + 1) raises ValueError for no customer.
CustomerDraws == IF N_CUSTOMERS < 1 THEN {<<>>} ELSE {<<c>> : c \in 1..N_CUSTOMERS}

SignupOf(customer_id) ==
    IF customer_id \in DOMAIN signup_map THEN signup_map[customer_id] ELSE START_DATE

\* np.random.randint(0, delta_days + 1), when the signup date is before END_DATE
DayDraws(c) ==
    IF c = <<>> \/ SignupOf(c[1]) >= END_DATE THEN {<<>>}
    ELSE {<<r>> : r \in 0..(END_DATE - SignupOf(c[1]))}

PaymentDraws(c) ==
    IF c = <<>> THEN {<<>>} ELSE {<<p, st>> : p \in PaymentSample, st \in StatusSample}

\* np.random.choice(item_choices, p=base_probs) raises ValueError when a and
\* p differ in size or a is empty.
CountDraws(c) ==
    IF c = <<>> \/ Len(item_choices) # Len(base_probs) \/ item_choices = <<>> THEN {<<>>}
    ELSE {<<n>> : n \in Range(item_choices)}

\* np.random.choice(..., size=n_items, replace=False, ...) raises ValueError
\* when more products are asked for than there are.
ProductDraws(n) == IF n = <<>> \/ n[1] > N_PRODUCTS THEN {<<>>} ELSE DistinctProducts(n[1])

\* The body of the try block for order oid (lines 265-312) on these draws.
Attempt(oid, c, r, ps, n, pids, qs, dcs) ==
    IF c = <<>> THEN Raised(<<>>, <<>>, 0)
    ELSE IF n = <<>> THEN Raised(c \o r \o ps, <<>>, 0)
    ELSE IF n[1] > N_PRODUCTS THEN Raised(c \o r \o ps \o n, <<>>, 0)
    ELSE ItemsOutcome(oid, c[1],
                      OrderDate(SignupOf(c[1]), IF r = <<>> THEN 0 ELSE r[1]),
                      ps[1], ps[2], pids, qs, dcs, c \o r \o ps \o n \o pids)

RECURSIVE AppendLines(_, _, _)
AppendLines(fs, name, lines) ==
    IF lines = <<>> THEN fs
    ELSE AppendLines(AppendLine(fs, name, lines[1]), name, Tail(lines))

\* Mutant: the exception swallowed without a report.
ReportErrorSilently(errs, oid) == errs

\* except Exception: the order id is printed to stderr
ReportError(errs, oid) == Append(errs, oid)

\* One pass of the order loop (lines 263-316).
GenOrder ==
    /\ pc = "orders"
    /\ order_id <= N_ORDERS
    /\ \E c \in CustomerDraws :
       \E r \in DayDraws(c), ps \in PaymentDraws(c), n \in CountDraws(c) :
       \E pids \in ProductDraws(n) :
       \E qs \in [1..Len(pids) -> QuantityChoices], dcs \in [1..Len(pids) -> DiscountChoices] :
        LET o == Attempt(order_id, c, r, ps, n, pids, qs, dcs)
            items == AppendLines(files, "order_items.csv", o.item_lines)
        IN  /\ Follows(<<>>, c \o r \o ps \o n \o pids)
            /\ Consistent(o.draws)
            /\ stream' = Record(o.draws)
            /\ pos' = pos + Len(o.draws)
            /\ order_item_id' = order_item_id + o.ids
            /\ IF o.raised
               THEN /\ files' = items
                    /\ errors' = ReportError(errors, order_id)
               ELSE /\ files' = AppendLine(items, "orders.csv", o.order_line)
                    /\ errors' = errors
    /\ order_id' = order_id + 1
    /\ UNCHANGED <<config, END_DATE, pc, i, customers, products, prices, signup_map,
                   price_map, prev, valvars>>

\* Lines 321-331: the metadata (its generated_at timestamp left out).
SaveMetadata ==
    /\ pc = "orders"
    /\ order_id > N_ORDERS
    /\ files' = Write(files, "metadata.json",
                      [header |-> <<"seed", "n_customers", "n_products", "n_orders",
                                    "min_items_per_order", "max_items_per_order">>,
                       lines |-> <<<<SEED, N_CUSTOMERS, N_PRODUCTS, N_ORDERS,
                                     MIN_ITEMS_PER_ORDER, MAX_ITEMS_PER_ORDER>>>>])
    /\ pc' = "done"
    /\ UNCHANGED <<config, END_DATE, i, customers, products, prices, signup_map,
                   price_map, order_id, order_item_id, errors, stream, pos, prev, valvars>>

\* ------------------------------------------------------------ the validator
\* The validator's copy of the authoritative mapping (the same two entries).
VALIDATOR_TYPE_TO_CATEGORY ==
    [t \in {"Dry Shampoo", "Hand Cream"} |->
        IF t = "Dry Shampoo" THEN "Shampoo" ELSE "Hand Care"]

EXPECTED ==
    [f \in TableNames |->
        CASE f = "customers.csv" -> customers_columns
          [] f = "products.csv" -> products_columns
          [] f = "orders.csv" -> orders_columns
          [] OTHER -> order_items_columns]

\* A missing value: NaN in a numeric column, the empty field in a text column.
NaN == 0 - 1
StringColumns == {"first_name", "last_name", "email", "city", "product_name",
                  "product_type", "category", "payment_type", "status"}
IsNull(column, cell) == IF column \in StringColumns THEN cell = "" ELSE cell = NaN

\* A check that was not printed.
NotRun == 0 - 1
ReportKeys == {"schema", "orders.customer_id", "order_items.order_id",
               "order_items.product_id", "price >= cost", "category mapping",
               "order_date >= signup_date", "line_total", "customer_id unique",
               "product_id unique", "order_id unique", "order_item_id unique", "nulls"}

Index(header, column) == CHOOSE j \in 1..Len(header) : header[j] = column

\* pd.read_csv: the columns are the header's, each line a row by position.
read_csv(file) ==
    [columns |-> file.header,
     rows |-> [k \in 1..Len(file.lines) |->
                 [c \in Range(file.header) |-> file.lines[k][Index(file.header, c)]]]]

\* load_csv raises FileNotFoundError for a missing file, and pd.read_csv
\* EmptyDataError for a file with no header.
Loadable(fs, name) == fs[name] # <<>> /\ fs[name][1].header # <<>>

Loaded(fs) ==
    [customers |-> read_csv(fs["customers.csv"][1]),
     products |-> read_csv(fs["products.csv"][1]),
     orders |-> read_csv(fs["orders.csv"][1]),
     items |-> read_csv(fs["order_items.csv"][1])]

Has(df, column) == column \in Range(df.columns)
Column(df, column) == [k \in 1..Len(df.rows) |-> df.rows[k][column]]
Values(df, column) == Range(Column(df, column))

\* Lines 101-105.
Load ==
    /\ vpc = "load"
    /\ pc = "done"
    /\ IF \A f \in TableNames : Loadable(files, f)
       THEN /\ frames' = Loaded(files)
            /\ vpc' = "schema"
       ELSE /\ frames' = frames
            /\ vpc' = "crashed"
    /\ UNCHANGED <<config, END_DATE, genvars, files, stream, pos, prev, report, scenario>>

\* check_schema: the column sets differ.
SchemaMismatch(df, expected_cols) == Range(df.columns) # Range(expected_cols)

\* Lines 107-110: every table is loaded again and its schema checked.
Schema ==
    /\ vpc = "schema"
    /\ report' = [report EXCEPT !["schema"] =
            Cardinality({f \in TableNames :
                SchemaMismatch(read_csv(files[f][1]), EXPECTED[f])})]
    /\ vpc' = "referential"
    /\ UNCHANGED <<config, END_DATE, genvars, files, stream, pos, prev, frames, scenario>>

\* A printed check: whether the columns it reads are there (an absent one
\* raises AttributeError or KeyError, which nothing catches) and what it counts.
Check(key, ok, value) == [key |-> key, ok |-> ok, value |-> value]

\* The checks of a section in order, up to the first that raises.
Printed(checks) ==
    LET bad == {k \in 1..Len(checks) : ~checks[k].ok}
    IN  IF bad = {} THEN Len(checks)
        ELSE (CHOOSE k \in bad : \A m \in bad : k <= m) - 1

RunChecks(rep, checks) ==
    [key \in DOMAIN rep |->
        IF \E k \in 1..Printed(checks) : checks[k].key = key
        THEN checks[CHOOSE k \in 1..Printed(checks) : checks[k].key = key].value
        ELSE rep[key]]

\* set(child.column) - set(parent.column)
Dangling(child, child_col, parent, parent_col) ==
    IF Has(child, child_col) /\ Has(parent, parent_col)
    THEN Cardinality(Values(child, child_col) \ Values(parent, parent_col))
    ELSE 0

\* Lines 112-135.
Referential ==
    /\ vpc = "referential"
    /\ LET checks == <<
             Check("orders.customer_id",
                   Has(frames.orders, "customer_id") /\ Has(frames.customers, "customer_id"),
                   Dangling(frames.orders, "customer_id", frames.customers, "customer_id")),
             Check("order_items.order_id",
                   Has(frames.items, "order_id") /\ Has(frames.orders, "order_id"),
                   Dangling(frames.items, "order_id", frames.orders, "order_id")),
             Check("order_items.product_id",
                   Has(frames.items, "product_id") /\ Has(frames.products, "product_id"),
                   Dangling(frames.items, "product_id", frames.products, "product_id"))>>
       IN /\ report' = RunChecks(report, checks)
          /\ vpc' = IF Printed(checks) = Len(checks) THEN "business" ELSE "crashed"
    /\ UNCHANGED <<config, END_DATE, genvars, files, stream, pos, prev, frames, scenario>>

\* A comparison with NaN is False.
Less(a, b) == a # NaN /\ b # NaN /\ a < b

\* products[products.price < products.cost]
bad_price(products_df) ==
    IF Has(products_df, "price") /\ Has(products_df, "cost")
    THEN Cardinality({k \in 1..Len(products_df.rows) :
            Less(products_df.rows[k].price, products_df.rows[k].cost)})
    ELSE 0

\* PRODUCT_TYPE_TO_CATEGORY.get(r.product_type) != r.category
mismatches(products_df) ==
    IF Has(products_df, "product_type") /\ Has(products_df, "category")
    THEN Cardinality({k \in 1..Len(products_df.rows) :
            LET r == products_df.rows[k]
            IN  \/ r.product_type \notin DOMAIN VALIDATOR_TYPE_TO_CATEGORY
                \/ VALIDATOR_TYPE_TO_CATEGORY[r.product_type] # r.category})
    ELSE 0

\* orders.merge(customers[["customer_id", "signup_date"]], on="customer_id"),
\* then merged.order_date < merged.signup_date
MergeOk(orders_df, customers_df) ==
    /\ Has(customers_df, "customer_id") /\ Has(customers_df, "signup_date")
    /\ Has(orders_df, "customer_id") /\ Has(orders_df, "order_date")
    /\ ~Has(orders_df, "signup_date")

bad_dates(orders_df, customers_df) ==
    IF MergeOk(orders_df, customers_df)
    THEN Cardinality({m \in (1..Len(orders_df.rows)) \X (1..Len(customers_df.rows)) :
            /\ orders_df.rows[m[1]].customer_id = customers_df.rows[m[2]].customer_id
            /\ Less(orders_df.rows[m[1]].order_date, customers_df.rows[m[2]].signup_date)})
    ELSE 0

Times(a, b) == IF a = NaN \/ b = NaN THEN NaN ELSE a * b
Abs(x) == IF x < 0 THEN 0 - x ELSE x

\* items["calc"] = items.quantity * items.unit_price
WithCalc(items_df) ==
    [columns |-> IF Has(items_df, "calc") THEN items_df.columns
                 ELSE Append(items_df.columns, "calc"),
     rows |-> [k \in 1..Len(items_df.rows) |->
                [c \in Range(items_df.columns) \cup {"calc"} |->
                    IF c = "calc"
                    THEN Times(items_df.rows[k].quantity, items_df.rows[k].unit_price)
                    ELSE items_df.rows[k][c]]]]

\* items[abs(items.calc - items.line_total) > 0.01]
bad_line_total(items_df) ==
    IF Has(items_df, "calc") /\ Has(items_df, "line_total")
    THEN Cardinality({k \in 1..Len(items_df.rows) :
            LET r == items_df.rows[k]
            IN  r.calc # NaN /\ r.line_total # NaN /\ Abs(r.calc - r.line_total) > 1})
    ELSE 0

\* Lines 137-176.
Business ==
    /\ vpc = "business"
    /\ LET first == <<
             Check("price >= cost",
                   Has(frames.products, "price") /\ Has(frames.products, "cost"),
                   bad_price(frames.products)),
             Check("category mapping",
                   frames.products.rows = <<>>
                     \/ (Has(frames.products, "product_type")
                           /\ Has(frames.products, "category")),
                   mismatches(frames.products)),
             Check("order_date >= signup_date",
                   MergeOk(frames.orders, frames.customers),
                   bad_dates(frames.orders, frames.customers))>>
           assigned == /\ Printed(first) = Len(first)
                       /\ Has(frames.items, "quantity")
                       /\ Has(frames.items, "unit_price")
           items == IF assigned THEN WithCalc(frames.items) ELSE frames.items
           last == <<Check("line_total",
                           assigned /\ Has(items, "line_total"),
                           bad_line_total(items))>>
       IN /\ report' = RunChecks(report, first \o last)
          /\ frames' = [frames EXCEPT !.items = items]
          /\ vpc' = IF Printed(first \o last) = Len(first) + 1
                    THEN "uniqueness" ELSE "crashed"
    /\ UNCHANGED <<config, END_DATE, genvars, files, stream, pos, prev, scenario>>

\* check_unique: df[col].is_unique
duplicates(df, column) ==
    IF Has(df, column) /\ Cardinality(Values(df, column)) # Len(df.rows) THEN 1 ELSE 0

\* Lines 178-189.
Uniqueness ==
    /\ vpc = "uniqueness"
    /\ LET checks == <<
             Check("customer_id unique", Has(frames.customers, "customer_id"),
                   duplicates(frames.customers, "customer_id")),
             Check("product_id unique", Has(frames.products, "product_id"),
                   duplicates(frames.products, "product_id")),
             Check("order_id unique", Has(frames.orders, "order_id"),
                   duplicates(frames.orders, "order_id")),
             Check("order_item_id unique", Has(frames.items, "order_item_id"),
                   duplicates(frames.items, "order_item_id"))>>
       IN /\ report' = RunChecks(report, checks)
          /\ vpc' = IF Printed(checks) = Len(checks) THEN "nulls" ELSE "crashed"
    /\ UNCHANGED <<config, END_DATE, genvars, files, stream, pos, prev, frames, scenario>>

\* df.isnull().sum(), the columns with a null
null_columns(df) ==
    {c \in Range(df.columns) : \E k \in 1..Len(df.rows) : IsNull(c, df.rows[k][c])}

\* Lines 191-205.
Nulls ==
    /\ vpc = "nulls"
    /\ report' = [report EXCEPT !["nulls"] =
            Cardinality(null_columns(frames.customers))
              + Cardinality(null_columns(frames.products))
              + Cardinality(null_columns(frames.orders))
              + Cardinality(null_columns(frames.items))]
    /\ vpc' = "done"
    /\ UNCHANGED <<config, END_DATE, genvars, files, stream, pos, prev, frames, scenario>>

ValNext == Load \/ Schema \/ Referential \/ Business \/ Uniqueness \/ Nulls

ValStart ==
    /\ vpc = "load"
    /\ frames = <<>>
    /\ report = [k \in ReportKeys |-> NotRun]

\* ------------------------------------------------------------ the generator
\* The configurations explored: at most one count above 1.
Configs ==
    {c \in [n_customers : 0..MaxCustomers, n_products : 0..MaxProducts,
            n_orders : 0..MaxOrders, max_items : MaxItemsChoices,
            product_types : {CatalogKeys, <<>>}] :
        Cardinality({f \in {"c", "p", "o"} :
            (CASE f = "c" -> c.n_customers [] f = "p" -> c.n_products
               [] OTHER -> c.n_orders) > 1}) <= 1}

GenStart(c, today) ==
    /\ N_CUSTOMERS = c.n_customers
    /\ N_PRODUCTS = c.n_products
    /\ N_ORDERS = c.n_orders
    /\ MAX_ITEMS_PER_ORDER = c.max_items
    /\ PRODUCT_TYPES = c.product_types
    /\ END_DATE = today
    /\ pc = "customers"
    /\ i = 1
    /\ customers = <<>>
    /\ products = <<>>
    /\ prices = <<>>
    /\ signup_map = <<>>
    /\ price_map = <<>>
    /\ order_id = 0
    /\ order_item_id = 0
    /\ errors = <<>>
    /\ files = NoFiles
    /\ pos = 0

Scenario(kind, table, column, row) ==
    [kind |-> kind, table |-> table, column |-> column, row |-> row]

Generated == Scenario("generated", "", "", 0)

Init ==
    /\ \E c \in Configs : GenStart(c, Today)
    /\ stream = <<>>
    /\ prev = <<>>
    /\ ValStart
    /\ scenario = Generated

GenNext == GenCustomer \/ SaveCustomers \/ GenProduct \/ SaveProducts \/ GenOrder
              \/ SaveMetadata

Next == GenNext \/ ValNext

\* A generator run followed by a validation of what it wrote.
Spec == Init /\ [][Next]_vars

\* The generator alone.
SpecGen == Init /\ [][GenNext]_vars

\* ------------------------------------------------ a second run, same seed
\* The script is started again, now or on a later day, with the same SEED:
\* np.random.seed(SEED) puts the stream back at its start.  The first run's
\* tables are kept aside for comparison.
Rerun ==
    /\ pc = "done"
    /\ prev = <<>>
    /\ prev' = <<FourTables(files)>>
    /\ \E today \in END_DATE..(END_DATE + MaxClockAdvance) : END_DATE' = today
    /\ pc' = "customers"
    /\ i' = 1
    /\ customers' = <<>>
    /\ products' = <<>>
    /\ prices' = <<>>
    /\ signup_map' = <<>>
    /\ price_map' = <<>>
    /\ order_id' = 0
    /\ order_item_id' = 0
    /\ errors' = <<>>
    /\ pos' = 0
    /\ UNCHANGED <<config, files, stream, valvars>>

DetNext == GenNext \/ Rerun

SpecDet == Init /\ [][DetNext]_vars

\* ------------------------------------- validation of datasets of any source
\* A dataset every check passes on, and the ways it is changed before it is
\* handed to the validator.
BaseDataset ==
    [f \in FileNames |->
        CASE f = "customers.csv" ->
               <<[header |-> customers_columns,
                  lines |-> <<<<1, "Anna", "Berg", "user1@example.com", 9, "Stockholm", 35>>,
                              <<2, "Lars", "Holm", "user2@example.com", 10, "Stockholm", 41>>>>]>>
          [] f = "products.csv" ->
               <<[header |-> products_columns,
                  lines |-> <<<<1, "Hydra Dry Shampoo 30ml", "Dry Shampoo", "Shampoo",
                                1649, 907, 120>>,
                              <<2, "Hydra Hand Cream 30ml", "Hand Cream", "Hand Care",
                                1999, 800, 118>>>>]>>
          [] f = "orders.csv" ->
               <<[header |-> orders_columns,
                  lines |-> <<<<1, 1, 10, 5197, "card", "completed">>,
                              <<2, 2, 10, 4701, "swish", "completed">>>>]>>
          [] f = "order_items.csv" ->
               <<[header |-> order_items_columns,
                  lines |-> <<<<1, 1, 1, 2, 1649, 3298>>,
                              <<2, 1, 2, 1, 1899, 1899>>,
                              <<3, 2, 1, 3, 1567, 4701>>>>]>>
          [] OTHER -> <<>>]

SetCell(file, row, column, cell) ==
    [file EXCEPT !.lines[row][Index(file.header, column)] = cell]

Cell(file, row, column) == file.lines[row][Index(file.header, column)]

Without(s, k) == SubSeq(s, 1, k - 1) \o SubSeq(s, k + 1, Len(s))

DropColumn(file, column) ==
    LET j == Index(file.header, column)
    IN  [header |-> Without(file.header, j),
         lines |-> [k \in 1..Len(file.lines) |-> Without(file.lines[k], j)]]

AddColumn(file, column, cell) ==
    [header |-> Append(file.header, column),
     lines |-> [k \in 1..Len(file.lines) |-> Append(file.lines[k], cell)]]

Scenarios ==
    {Scenario("as_is", "", "", 0)}
    \cup {Scenario("cost_above_price", "products.csv", "cost", k) : k \in 1..2}
    \cup {Scenario("line_total_plus_100", "order_items.csv", "line_total", k) : k \in 1..3}
    \cup {Scenario("remove_row", "customers.csv", "", k) : k \in 1..2}
    \cup {Scenario("wrong_category", "products.csv", "category", k) : k \in 1..2}
    \cup {Scenario("order_before_signup", "orders.csv", "order_date", k) : k \in 1..2}
    \cup UNION {{Scenario(kind, f, EXPECTED[f][c], IF kind = "null_cell" THEN 1 ELSE 0) :
                    c \in 1..Len(EXPECTED[f]), kind \in {"drop_column", "null_cell"}} :
                 f \in TableNames}
    \cup {Scenario("duplicate_row", f, "", 1) : f \in TableNames}
    \cup {Scenario("extra_column", f, "note", 0) : f \in TableNames}

\* The dataset of a scenario.
Dataset(sc) ==
    LET file == IF sc.table = "" THEN EmptyFile(<<>>) ELSE BaseDataset[sc.table][1]
        changed ==
          CASE sc.kind = "cost_above_price" ->
                 SetCell(file, sc.row, "cost", Cell(file, sc.row, "price") + 1)
            [] sc.kind = "line_total_plus_100" ->
                 SetCell(file, sc.row, "line_total", Cell(file, sc.row, "line_total") + 100)
            [] sc.kind = "remove_row" ->
                 [file EXCEPT !.lines = Without(file.lines, sc.row)]
            [] sc.kind = "wrong_category" -> SetCell(file, sc.row, "category", "Makeup")
            [] sc.kind = "order_before_signup" -> SetCell(file, sc.row, "order_date", 8)
            [] sc.kind = "drop_column" -> DropColumn(file, sc.column)
            [] sc.kind = "null_cell" ->
                 SetCell(file, sc.row, sc.column,
                         IF sc.column \in StringColumns THEN "" ELSE NaN)
            [] sc.kind = "duplicate_row" ->
                 [file EXCEPT !.lines = Append(file.lines, file.lines[sc.row])]
            [] sc.kind = "extra_column" -> AddColumn(file, sc.column, 0)
            [] OTHER -> file
    IN  IF sc.table = "" THEN BaseDataset
        ELSE [BaseDataset EXCEPT ![sc.table] = <<changed>>]

\* The validator is handed a dataset; the generator is not part of the run.
InitVal ==
    /\ \E sc \in Scenarios :
        /\ scenario = sc
        /\ files = Dataset(sc)
    /\ N_CUSTOMERS = 2
    /\ N_PRODUCTS = 2
    /\ N_ORDERS = 2
    /\ MAX_ITEMS_PER_ORDER = DEFAULT_MAX_ITEMS_PER_ORDER
    /\ PRODUCT_TYPES = CatalogKeys
    /\ END_DATE = Today
    /\ pc = "done"
    /\ i = 1
    /\ customers = <<>>
    /\ products = <<>>
    /\ prices = <<>>
    /\ signup_map = <<>>
    /\ price_map = <<>>
    /\ order_id = 0
    /\ order_item_id = 0
    /\ errors = <<>>
    /\ stream = <<>>
    /\ pos = 0
    /\ prev = <<>>
    /\ ValStart

SpecVal == InitVal /\ [][ValNext]_vars

\* ------------------------------------------------------------------ claims
Lines(name) == IF files[name] = <<>> THEN <<>> ELSE files[name][1].lines

CustomerIds == {customers[k].customer_id : k \in 1..Len(customers)}
ProductIds == {products[k].product_id : k \in 1..Len(products)}
WrittenOrderIds == {Lines("orders.csv")[k][1] : k \in 1..Len(Lines("orders.csv"))}

\* The item lines of one order.
ItemsOf(oid) == SelectSeq(Lines("order_items.csv"), LAMBDA line : line[2] = oid)

\* C1: two runs with the same seed, configuration and catalog, started on
\* whatever days, write the same four tables.
C1_SameSeedSameTables ==
    (pc = "done" /\ prev # <<>>) => FourTables(files) = prev[1]

\* C2: when the generator has finished, every order references a generated
\* customer, and every order item an order written to orders.csv and a
\* generated product, skipped orders or not.
C2_ReferentialClosure ==
    pc = "done" =>
        /\ \A k \in 1..Len(Lines("orders.csv")) :
              Lines("orders.csv")[k][2] \in CustomerIds
        /\ \A k \in 1..Len(Lines("order_items.csv")) :
              /\ Lines("order_items.csv")[k][2] \in WrittenOrderIds
              /\ Lines("order_items.csv")[k][3] \in ProductIds

\* A finished run that skipped an order and wrote another with its items.
C2_SkippedAndWritten ==
    /\ pc = "done"
    /\ errors # <<>>
    /\ Lines("orders.csv") # <<>>
    /\ Lines("order_items.csv") # <<>>

\* C3: every order written is dated on or after the signup date of its
\* customer.
C3_OrderNotBeforeSignup ==
    \A k \in 1..Len(Lines("orders.csv")) :
        \E c \in 1..Len(customers) :
            /\ customers[c].customer_id = Lines("orders.csv")[k][2]
            /\ Lines("orders.csv")[k][3] >= customers[c].signup_date

\* An order of a customer who signed up on the day of the run.
C3_SignupOnRunDay ==
    \E k \in 1..Len(Lines("orders.csv")), c \in 1..Len(customers) :
        /\ customers[c].customer_id = Lines("orders.csv")[k][2]
        /\ customers[c].signup_date = END_DATE
        /\ Lines("orders.csv")[k][3] = END_DATE

\* C4: every item's line_total is within a cent of quantity * unit_price, and
\* every order's total_amount within a cent of the sum of its items' line
\* totals.
C4_AggregateConsistency ==
    /\ \A k \in 1..Len(Lines("order_items.csv")) :
          LET line == Lines("order_items.csv")[k]
          IN  Abs(line[4] * line[5] - line[6]) <= 1
    /\ \A k \in 1..Len(Lines("orders.csv")) :
          LET order == Lines("orders.csv")[k]
              its == ItemsOf(order[1])
          IN  Abs(Sum([j \in 1..Len(its) |-> its[j][6]]) - order[4]) <= 1

\* An order of two items, one of them discounted and bought more than once.
C4_TwoItemOrder ==
    \E k \in 1..Len(Lines("orders.csv")) :
        LET its == ItemsOf(Lines("orders.csv")[k][1])
        IN  /\ Len(its) = 2
            /\ \E j \in 1..2 : its[j][4] = 3 /\ its[j][5] < price_map[its[j][3]]

PositiveCounts == N_CUSTOMERS >= 1 /\ N_PRODUCTS >= 1 /\ N_ORDERS >= 1

\* C5: the validator, run on the tables of a completed generator run with
\* positive counts, finishes and reports no violation in any check.
C5_GeneratedDataValidates ==
    PositiveCounts =>
        /\ vpc # "crashed"
        /\ vpc = "done" => \A key \in ReportKeys : report[key] = 0

\* A validated run whose one order has two items.
C5_ValidatedRun ==
    /\ vpc = "done"
    /\ PositiveCounts
    /\ Len(Lines("orders.csv")) = 1
    /\ Len(Lines("order_items.csv")) = 2

\* C6: an order whose generation raised leaves no line in orders.csv or
\* order_items.csv and exactly one error naming it; the loop goes on to the
\* next order, so at the end every order id is either written or reported.
C6_SkipAndContinue ==
    /\ pc \in {"orders", "done"} =>
          \A oid \in 1..(order_id - 1) :
              LET reported == Cardinality({k \in 1..Len(errors) : errors[k] = oid})
                  written == Cardinality({k \in 1..Len(Lines("orders.csv")) :
                                            Lines("orders.csv")[k][1] = oid})
              IN  /\ reported + written = 1
                  /\ reported = 1 => ItemsOf(oid) = <<>>
    /\ pc = "done" => order_id = N_ORDERS + 1

\* The first order was skipped and the second written.
C6_SkippedThenWritten ==
    /\ pc = "done"
    /\ errors = <<1>>
    /\ WrittenOrderIds = {2}

\* The configuration errors of section 7 of the specification.
ConfigurationError ==
    \/ N_CUSTOMERS < 1 \/ N_PRODUCTS < 1 \/ N_ORDERS < 1
    \/ PRODUCT_TYPES = <<>>
    \/ Len(item_choices) # Len(base_probs)

\* C10: under a configuration error nothing is written and no order is
\* generated or skipped.
C10_ConfigurationErrorIsFatal ==
    ConfigurationError =>
        /\ \A f \in TableNames : files[f] = <<>>
        /\ errors = <<>>

\* C7: the validator reports every check for every readable dataset, also
\* one that failed an earlier check.
C7_EveryCheckReported ==
    vpc \in {"done", "crashed"} => \A key \in ReportKeys : report[key] # NotRun

\* The order-total violations the validator reports.
OrderTotalViolations ==
    IF "order total" \in DOMAIN report THEN report["order total"] ELSE 0

\* C8: with one item's line_total raised by 1.00 in a dataset that passed,
\* the validator reports exactly one line-item violation and exactly one
\* order-total violation.
C8_LineTotalMutation ==
    (vpc = "done" /\ scenario.kind = "line_total_plus_100") =>
        /\ report["line_total"] = 1
        /\ OrderTotalViolations = 1

\* C9: the tables the checks read are the tables as loaded.
C9_InputNotMutated ==
    vpc \in {"schema", "referential", "business", "uniqueness", "nulls", "done"} =>
        frames = Loaded(files)

\* ------------------------------------------------------------ validator scenarios
\* The validator on the unchanged dataset, and on each single change.
ValidatorScenarios ==
    vpc = "done" =>
        /\ scenario.kind = "as_is" => \A key \in ReportKeys : report[key] = 0
        /\ scenario.kind = "cost_above_price" =>
              \A key \in ReportKeys : report[key] = IF key = "price >= cost" THEN 1 ELSE 0
        /\ scenario.kind = "line_total_plus_100" =>
              \A key \in ReportKeys : report[key] = IF key = "line_total" THEN 1 ELSE 0
        /\ scenario.kind = "remove_row" =>
              \A key \in ReportKeys : report[key] = IF key = "orders.customer_id" THEN 1 ELSE 0
        /\ scenario.kind = "wrong_category" =>
              \A key \in ReportKeys : report[key] = IF key = "category mapping" THEN 1 ELSE 0
        /\ scenario.kind = "extra_column" =>
              \A key \in ReportKeys : report[key] = IF key = "schema" THEN 1 ELSE 0

====
